---- MODULE Spec2Model ----
(***************************************************************************)
(* Box Game Online (src/src/App.tsx): each browser client publishes one    *)
(* player record under its session id to a shared real-time store,         *)
(* subscribes to the whole "players" collection, renders it, and moves its *)
(* own record with the arrow keys.                                         *)
(*                                                                         *)
(* The store itself is a third-party service.  It is modelled as a keyed   *)
(* map that applies each set/remove at once and raises one change          *)
(* notification per change to every subscribed client.  A notification    *)
(* carries the whole collection and is delivered to the client later; one  *)
(* raised before the last was delivered takes its place (pending).         *)
(***************************************************************************)
EXTENDS Integers, Sequences, FiniteSets, TLC

\* ---------------------------------------------------------------- bounds
\* Accepted move writes explored in one behaviour of Spec (two clients).
MaxMoves == 1
\* Accepted move writes explored in one behaviour of SpecSolo (one client).
MaxSoloMoves == 3

\* ------------------------------------------------------ program constants
GAME_WIDTH == 900
GAME_HEIGHT == 600
PLAYER_SIZE == 30
\* The step of one key press: the literal 10 of "player.x + dx * 10".
STEP == 10

initialPosition == [x |-> 100, y |-> 100]

\* The browser clients.  Each loads the module once, so each has one session
\* id (uuidv4(), taken to be unique) and one random colour.
Clients == {"c1", "c2"}

id(c) == c

\* The colour Math.random() gave the client at load; no handler reads into it.
randomColor(c) == IF c = "c1" THEN "#1a2b3c" ELSE "#ffffff"

\* Values of the name input (sequences of characters): empty, a blank, a
\* letter.
Names == {<<>>, <<" ">>, <<"a">>}

\* e.key values: the four arrow keys and one other key.
ArrowKeys == {"ArrowLeft", "ArrowRight", "ArrowUp", "ArrowDown"}

Keys == ArrowKeys \cup {"a"}

\* An absent entry of the players collection.
None == [absent |-> TRUE]

\* No notification pending.
Idle == [idle |-> TRUE]

EmptyPlayers == [p \in Clients |-> None]

VARIABLES
    phase,          \* per client: "mounted" or "unmounted"
    name,           \* per client: the name state
    showNameModal,  \* per client: the showNameModal state
    players,        \* per client: the players state (local snapshot of the collection)
    store,          \* the store's "players" collection: id -> record or None
    pending,        \* per client: the notification raised and not yet delivered, or Idle
    budget,         \* move writes still explored in this behaviour
    last,           \* the last event handled: its kind, its client, its key, the store calls it made
    streak          \* the run of equal accepted key presses of one client, begun with its record loaded

vars == <<phase, name, showNameModal, players, store, pending, budget, last, streak>>

\* ---------------------------------------------------------- pure helpers
Min(a, b) == IF a < b THEN a ELSE b

Max(a, b) == IF a > b THEN a ELSE b

\* String.prototype.trim on a name.
RECURSIVE TrimLeft(_)
TrimLeft(s) == IF s # <<>> /\ Head(s) = " " THEN TrimLeft(Tail(s)) ELSE s

RECURSIVE TrimRight(_)
TrimRight(s) ==
    IF s # <<>> /\ s[Len(s)] = " " THEN TrimRight(SubSeq(s, 1, Len(s) - 1)) ELSE s

trim(s) == TrimRight(TrimLeft(s))

\* JavaScript truthiness of a string: only "" is falsy.
Truthy(s) == s # <<>>

\* ------------------------------------------------------------ the store
\* Variant: every client builds the path from one fixed id.
playerRefShared(c) == id("c1")

\* ref(db, `players/${id}`): the key of a client's own record (playerRef, and
\* the same path built again in handleMove).
playerRef(c) == id(c)

\* The calls a handler makes on the store.
SetOp(k, v) == [op |-> "set", key |-> k, val |-> v]

RemoveOp(k) == [op |-> "remove", key |-> k, val |-> None]

\* set(ref, value) overwrites the whole record; remove(ref) deletes it.
Apply(st, o) == [st EXCEPT ![o.key] = o.val]

\* The snapshot a notification carries: val() is null for an empty collection.
Snapshot(st) ==
    IF st = EmptyPlayers THEN [null |-> TRUE] ELSE [null |-> FALSE, data |-> st]

\* A change of the collection raises one notification per subscriber.
Raise(pend, subs, before, after) ==
    IF before = after
    THEN pend
    ELSE [c \in Clients |-> IF c \in subs THEN Snapshot(after) ELSE pend[c]]

\* The store calls of one handler, applied in order.
RECURSIVE Issue(_, _, _, _)
Issue(ops, st, pend, subs) ==
    IF ops = <<>>
    THEN [store |-> st, pending |-> pend]
    ELSE LET st2 == Apply(st, Head(ops))
         IN  Issue(Tail(ops), st2, Raise(pend, subs, st, st2), subs)

\* The clients whose onValue listener is attached: the presence effect has
\* run with a truthy name and its cleanup has not.
Subscribed == {c \in Clients : phase[c] = "mounted" /\ Truthy(name[c])}

\* ------------------------------------------------------ presence effect
\* useEffect(..., [name]) body: nothing for a falsy name, else the initial
\* record { ...initialPosition, color: randomColor, name }.
PresenceEffectWrites(c, n) ==
    IF ~Truthy(n)
    THEN <<>>
    ELSE <<SetOp(playerRef(c),
                 [x |-> initialPosition.x, y |-> initialPosition.y,
                  color |-> randomColor(c), name |-> n])>>

\* Variant: the cleanup only unsubscribes and leaves the record.
PresenceCleanupNoRemove(c, n) == <<>>

\* The cleanup the effect returned when it ran with name n (none for a falsy
\* name): remove(playerRef).
PresenceCleanupWrites(c, n) ==
    IF ~Truthy(n) THEN <<>> ELSE <<RemoveOp(playerRef(c))>>

\* handleBeforeUnload: remove(playerRef).
HandleBeforeUnloadWrites(c) == <<RemoveOp(playerRef(c))>>

\* Variant: setPlayers merges data into the previous state.
onValueCallbackMerge(prev, snapshot) ==
    IF snapshot.null
    THEN prev
    ELSE [p \in Clients |->
            IF snapshot.data[p] # None THEN snapshot.data[p] ELSE prev[p]]

\* The onValue callback: data = snapshot.val() || {}; setPlayers(data) puts
\* data in place of the previous state prev.
onValueCallback(prev, snapshot) ==
    IF snapshot.null THEN EmptyPlayers ELSE snapshot.data

\* --------------------------------------------------------- move handler
\* Variant: the "a" key moves left as well.
dxWasd(key) ==
    (IF key = "ArrowRight" THEN 1 ELSE 0)
        - (IF key = "ArrowLeft" \/ key = "a" THEN 1 ELSE 0)

dx(key) ==
    (IF key = "ArrowRight" THEN 1 ELSE 0) - (IF key = "ArrowLeft" THEN 1 ELSE 0)

\* Variant: ArrowRight moves down as well.
dyDiag(key) ==
    (IF key = "ArrowDown" \/ key = "ArrowRight" THEN 1 ELSE 0)
        - (IF key = "ArrowUp" THEN 1 ELSE 0)

dy(key) ==
    (IF key = "ArrowDown" THEN 1 ELSE 0) - (IF key = "ArrowUp" THEN 1 ELSE 0)

\* Variant: no clamping of x.
newXUnclamped(player, key) == player.x + dx(key) * STEP

newX(player, key) ==
    Max(0, Min(GAME_WIDTH - PLAYER_SIZE, player.x + dx(key) * STEP))

newY(player, key) ==
    Max(0, Min(GAME_HEIGHT - PLAYER_SIZE, player.y + dy(key) * STEP))

newPos(player, key) ==
    [x |-> newX(player, key), y |-> newY(player, key),
     color |-> player.color, name |-> player.name]

\* Variant: a missing own record is taken to be the initial one.
handleMoveNoGuard(c, pl, key) ==
    IF dx(key) # 0 \/ dy(key) # 0
    THEN LET player == IF pl[id(c)] = None
                       THEN [x |-> initialPosition.x, y |-> initialPosition.y,
                             color |-> randomColor(c), name |-> <<>>]
                       ELSE pl[id(c)]
         IN  <<SetOp(playerRef(c), newPos(player, key))>>
    ELSE <<>>

\* handleMove with the players state pl of the render that registered it.
handleMove(c, pl, key) ==
    IF dx(key) # 0 \/ dy(key) # 0
    THEN LET player == pl[id(c)]
         IN  IF player = None
             THEN <<>>
             ELSE <<SetOp(playerRef(c), newPos(player, key))>>
    ELSE <<>>

\* ------------------------------------------------------------- renderer
\* Object.entries(players).map(...): one box per entry of the game area.
Render(pl) ==
    {[pid |-> p, left |-> pl[p].x, top |-> pl[p].y, color |-> pl[p].color,
      name |-> pl[p].name] : p \in {q \in Clients : pl[q] # None}}

\* ---------------------------------------------------------------- state
Event(kind, c, key, ops) == [kind |-> kind, by |-> c, key |-> key, writes |-> ops]

\* The client's snapshot holds its record as the store does and nothing is
\* on its way.
InSync(c) ==
    /\ store[id(c)] # None
    /\ players[c][id(c)] = store[id(c)]
    /\ pending[c] = Idle

NoStreak == [n |-> 0]

\* The run after client c's key event that made the store calls ops: a press
\* that writes goes on with the run of the same client and key, or begins
\* one if the client was in sync; a press that writes nothing leaves it.
Streak(c, key, ops) ==
    IF ops = <<>>
    THEN streak
    ELSE IF streak.n > 0 /\ streak.by = c /\ streak.key = key
         THEN [streak EXCEPT !.n = @ + 1]
         ELSE IF InSync(c)
              THEN [n |-> 1, by |-> c, key |-> key,
                    from |-> [x |-> store[id(c)].x, y |-> store[id(c)].y]]
              ELSE NoStreak

\* Client c1 has just loaded the page (useState initial values; both
\* effects returned at once for the empty name).  Client c2 joined before:
\* its name is submitted, its record published at the start position and
\* loaded.
Init ==
    LET rec == [x |-> initialPosition.x, y |-> initialPosition.y,
                color |-> randomColor("c2"), name |-> <<"a">>]
        st == [EmptyPlayers EXCEPT ![playerRef("c2")] = rec]
    IN  /\ phase = [c \in Clients |-> "mounted"]
        /\ name = [c \in Clients |-> IF c = "c1" THEN <<>> ELSE <<"a">>]
        /\ showNameModal = [c \in Clients |-> c = "c1"]
        /\ players = [c \in Clients |-> IF c = "c1" THEN EmptyPlayers ELSE st]
        /\ store = st
        /\ pending = [c \in Clients |-> Idle]
        /\ budget = MaxMoves
        /\ last = Event("load", "", "", <<>>)
        /\ streak = NoStreak

\* onChange of the name input: setName(e.target.value).  The re-render runs
\* the presence effect's cleanup for the old name (remove, unsubscribe), then
\* the effect for the new one (set, subscribe: onValue raises a first
\* notification with the collection as it is).  The input exists only while
\* the modal shows.
SetName(c, v) ==
    /\ phase[c] = "mounted"
    /\ showNameModal[c]
    /\ v # name[c]
    /\ LET ops == PresenceCleanupWrites(c, name[c]) \o PresenceEffectWrites(c, v)
           r == Issue(ops, store, pending, Subscribed \ {c})
       IN  /\ store' = r.store
           /\ pending' = [r.pending EXCEPT
                            ![c] = IF Truthy(v) THEN Snapshot(r.store) ELSE Idle]
           /\ last' = Event("setName", c, "", ops)
    /\ streak' = NoStreak
    /\ name' = [name EXCEPT ![c] = v]
    /\ UNCHANGED <<phase, showNameModal, players, budget>>

\* onSubmit of the name form: if (name.trim()) setShowNameModal(false).
Submit(c) ==
    /\ phase[c] = "mounted"
    /\ showNameModal[c]
    /\ showNameModal' =
           [showNameModal EXCEPT ![c] = IF Truthy(trim(name[c])) THEN FALSE ELSE @]
    /\ last' = Event("submit", c, "", <<>>)
    /\ streak' = NoStreak
    /\ UNCHANGED <<phase, name, players, store, pending, budget>>

\* A keydown event on window.  The move effect registers handleMove only for
\* a truthy name, with the players state of the current render.
KeyDown(c, key) ==
    /\ phase[c] = "mounted"
    /\ Truthy(name[c])
    /\ LET ops == handleMove(c, players[c], key)
           r == Issue(ops, store, pending, Subscribed)
       IN  /\ budget >= Len(ops)
           /\ store' = r.store
           /\ pending' = r.pending
           /\ budget' = budget - Len(ops)
           /\ last' = Event("keydown", c, key, ops)
           /\ streak' = Streak(c, key, ops)
    /\ UNCHANGED <<phase, name, showNameModal, players>>

\* The store delivers the pending notification to the client's onValue
\* callback.
Notify(c) ==
    /\ pending[c] # Idle
    /\ players' = [players EXCEPT ![c] = onValueCallback(@, pending[c])]
    /\ pending' = [pending EXCEPT ![c] = Idle]
    /\ last' = Event("notify", c, "", <<>>)
    /\ UNCHANGED <<phase, name, showNameModal, store, budget, streak>>

\* The beforeunload event; the listener is attached by the presence effect.
\* The page goes on handling events until the browser discards it.
BeforeUnload(c) ==
    /\ phase[c] = "mounted"
    /\ Truthy(name[c])
    /\ LET ops == HandleBeforeUnloadWrites(c)
           r == Issue(ops, store, pending, Subscribed)
       IN  /\ store' = r.store
           /\ pending' = r.pending
           /\ last' = Event("beforeunload", c, "", ops)
    /\ streak' = NoStreak
    /\ UNCHANGED <<phase, name, showNameModal, players, budget>>

\* React unmounts App: the cleanups of both effects run (remove the record,
\* unsubscribe, drop the beforeunload and keydown listeners) and the
\* component's state is discarded.
Unmount(c) ==
    /\ phase[c] = "mounted"
    /\ LET ops == PresenceCleanupWrites(c, name[c])
           r == Issue(ops, store, pending, Subscribed \ {c})
       IN  /\ store' = r.store
           /\ pending' = [r.pending EXCEPT ![c] = Idle]
           /\ last' = Event("unmount", c, "", ops)
    /\ streak' = NoStreak
    /\ phase' = [phase EXCEPT ![c] = "unmounted"]
    /\ name' = [name EXCEPT ![c] = <<>>]
    /\ showNameModal' = [showNameModal EXCEPT ![c] = TRUE]
    /\ players' = [players EXCEPT ![c] = EmptyPlayers]
    /\ UNCHANGED budget

Next ==
    \/ \E c \in Clients, v \in Names : SetName(c, v)
    \/ \E c \in Clients : Submit(c)
    \/ \E c \in Clients, key \in Keys : KeyDown(c, key)
    \/ \E c \in Clients : Notify(c)
    \/ \E c \in Clients : BeforeUnload(c)
    \/ \E c \in Clients : Unmount(c)

Spec == Init /\ [][Next]_vars

\* One client alone, its record published and loaded, at the start position
\* or at a border of the game area; the other client's App is not mounted.
StartXs == {0, initialPosition.x, GAME_WIDTH - PLAYER_SIZE}

StartYs == {0, initialPosition.y, GAME_HEIGHT - PLAYER_SIZE}

InitSolo ==
    \E sx \in StartXs, sy \in StartYs :
        LET rec == [x |-> sx, y |-> sy, color |-> randomColor("c1"), name |-> <<"a">>]
            st == [EmptyPlayers EXCEPT ![playerRef("c1")] = rec]
        IN  /\ phase = [c \in Clients |-> IF c = "c1" THEN "mounted" ELSE "unmounted"]
            /\ name = [c \in Clients |-> IF c = "c1" THEN <<"a">> ELSE <<>>]
            /\ showNameModal \in [Clients -> BOOLEAN]
            /\ showNameModal["c2"] = TRUE
            /\ players = [c \in Clients |-> IF c = "c1" THEN st ELSE EmptyPlayers]
            /\ store = st
            /\ pending = [c \in Clients |-> Idle]
            /\ budget = MaxSoloMoves
            /\ last = Event("load", "", "", <<>>)
            /\ streak = NoStreak

SpecSolo == InitSolo /\ [][Next]_vars

\* =================================================================
\* Properties
\* =================================================================

\* A record lies inside the game area.
InArea(r) ==
    /\ 0 <= r.x /\ r.x <= GAME_WIDTH - PLAYER_SIZE
    /\ 0 <= r.y /\ r.y <= GAME_HEIGHT - PLAYER_SIZE

\* The own record in the snapshot of the client of the last event (a key
\* event leaves the snapshot as it was when the handler read it).
LastPlayer == players[last.by][id(last.by)]

\* C1: every record a client writes to the store (the initial write of the
\* presence effect and every move write) has 0 <= x <= 870 and
\* 0 <= y <= 570, and so has every record of the store.
C1_MovementClamping ==
    /\ \A i \in DOMAIN last.writes :
          last.writes[i].op = "set" => InArea(last.writes[i].val)
    /\ \A p \in Clients : store[p] # None => InArea(store[p])

\* C1 witness: ArrowLeft was pressed with the snapshot at the left border
\* and the move was written.
C1_Witness ==
    /\ last.kind = "keydown"
    /\ last.key = "ArrowLeft"
    /\ last.writes # <<>>
    /\ LastPlayer.x = 0
    /\ last.writes[1].val.x = 0

\* C2: a run of three ArrowRight presses of a client whose record was loaded
\* at (100,100), with notifications delivered at any time in between and no
\* other event, leaves the record (130,100) in the store.
C2_ThreeRights ==
    (/\ streak.n = 3
     /\ streak.key = "ArrowRight"
     /\ streak.from = initialPosition)
        => /\ store[id(streak.by)] # None
           /\ store[id(streak.by)].x = 130
           /\ store[id(streak.by)].y = 100

\* C3: once App has unmounted, the client's record is absent from the store
\* (in every later state as well).
C3_Teardown ==
    \A c \in Clients : phase[c] = "unmounted" => store[id(c)] = None

\* C3 witness: c1 unmounted after a move was written, and the cleanup
\* removed its record.
C3_Witness ==
    /\ phase["c1"] = "unmounted"
    /\ last.kind = "unmount"
    /\ last.by = "c1"
    /\ last.writes # <<>>
    /\ budget < MaxMoves

\* The boxes a collection snapshot calls for: one per entry, at its x, y,
\* with its colour and name; none for a null collection.
Boxes(snapshot) ==
    IF snapshot.null
    THEN {}
    ELSE {[pid |-> p, left |-> snapshot.data[p].x, top |-> snapshot.data[p].y,
           color |-> snapshot.data[p].color, name |-> snapshot.data[p].name] :
            p \in {q \in Clients : snapshot.data[q] # None}}

\* C4: after a notification is delivered to a client, the boxes the client
\* renders are those of the collection the notification carries: no entry
\* of an earlier snapshot remains, none of the new one is missing, and a
\* null collection renders no box.
C4_RenderConsistency ==
    [][last'.kind = "notify"
          => Render(players'[last'.by]) = Boxes(pending[last'.by])]_vars

\* C4 witness: after c2 unmounted, a notification was delivered to c1, which
\* now renders its own box alone.
C4_Witness ==
    /\ last.kind = "notify"
    /\ last.by = "c1"
    /\ Cardinality(Render(players["c1"])) = 1
    /\ players["c1"]["c1"] # None
    /\ phase["c2"] = "unmounted"

\* C5: a keydown event whose key is not an arrow key issues no store call
\* and leaves the store and the client's player map unchanged.
C5_NonArrowKeys ==
    [][(last'.kind = "keydown" /\ last'.key \notin ArrowKeys)
          => /\ store' = store
             /\ players' = players
             /\ last'.writes = <<>>]_vars

\* C5 witness: c1 handled a non-arrow key with its record published and
\* loaded.
C5_Witness ==
    /\ last.kind = "keydown"
    /\ last.by = "c1"
    /\ last.key \notin ArrowKeys
    /\ store["c1"] # None
    /\ players["c1"]["c1"] # None

\* C6: a client's record is created by the client's startup only, changed
\* in place by key presses only, and removed on unload or unmount only; in
\* particular editing the name neither removes nor re-creates it.
C6_Lifecycle ==
    [][\A p \in Clients :
          /\ (store[p] = None /\ store'[p] # None)
                => (last'.kind = "setName" /\ ~Truthy(name[last'.by]))
          /\ (store[p] # None /\ store'[p] # None /\ store'[p] # store[p])
                => last'.kind = "keydown"
          /\ (store[p] # None /\ store'[p] = None)
                => last'.kind \in {"beforeunload", "unmount"}]_vars

\* C7: while a client's name prompt shows (no non-blank name submitted yet),
\* the client has no record in the store.
C7_PromptGate ==
    \A c \in Clients :
        (phase[c] = "mounted" /\ showNameModal[c]) => store[id(c)] = None

\* C8: an arrow-key press of a client whose player map lacks its own id
\* issues no store call and leaves the store unchanged.
C8_NotLoadedNoOp ==
    [][(/\ last'.kind = "keydown"
        /\ last'.key \in ArrowKeys
        /\ players[last'.by][id(last'.by)] = None)
          => /\ store' = store
             /\ last'.writes = <<>>]_vars

\* C8 witness: c1 pressed an arrow key after its record was removed from the
\* store and the removal was delivered to it (its map still shows c2).
C8_Witness ==
    /\ last.kind = "keydown"
    /\ last.by = "c1"
    /\ last.key \in ArrowKeys
    /\ last.writes = <<>>
    /\ store["c1"] = None
    /\ players["c1"]["c1"] = None
    /\ players["c1"]["c2"] # None
    /\ pending["c1"] = Idle

\* C9: every store call of a client is on the record keyed by its own id,
\* and a record changes only in a step of the client it belongs to.
C9_OwnRecordOnly ==
    [][/\ \A i \in DOMAIN last'.writes : last'.writes[i].key = id(last'.by)
       /\ \A d \in Clients : store'[id(d)] # store[id(d)] => last'.by = d]_vars

\* C9 witness: with the records of both clients in the store, c2 wrote a
\* move.
C9_Witness ==
    /\ last.kind = "keydown"
    /\ last.by = "c2"
    /\ last.writes # <<>>
    /\ store["c1"] # None
    /\ store["c2"] # None

\* C10 as stated: diagonal movement is allowed, i.e. for a client whose
\* loaded record lies off the borders some key event writes a record that
\* differs from it in both x and y.
C10_Diagonal ==
    \A c \in Clients :
        (/\ phase[c] = "mounted"
         /\ Truthy(name[c])
         /\ players[c][id(c)] # None
         /\ 0 < players[c][id(c)].x
         /\ players[c][id(c)].x < GAME_WIDTH - PLAYER_SIZE
         /\ 0 < players[c][id(c)].y
         /\ players[c][id(c)].y < GAME_HEIGHT - PLAYER_SIZE)
            => \E k \in Keys :
                  LET w == handleMove(c, players[c], k)
                  IN  /\ w # <<>>
                      /\ w[1].val.x # players[c][id(c)].x
                      /\ w[1].val.y # players[c][id(c)].y

\* C10 amended: the delta is computed per axis, +-10 on each, and a key
\* event names one key: the record written for a snapshot record inside the
\* area differs from it by one step on the key's axis (less when clamped at
\* a border) and not at all on the other axis.
C10_OneAxis ==
    (last.kind = "keydown" /\ last.writes # <<>> /\ InArea(LastPlayer))
        => LET w == last.writes[1].val
               p == LastPlayer
           IN  /\ last.key \in ArrowKeys
               /\ last.key = "ArrowRight" =>
                     w.x = Min(GAME_WIDTH - PLAYER_SIZE, p.x + 10) /\ w.y = p.y
               /\ last.key = "ArrowLeft" =>
                     w.x = Max(0, p.x - 10) /\ w.y = p.y
               /\ last.key = "ArrowDown" =>
                     w.y = Min(GAME_HEIGHT - PLAYER_SIZE, p.y + 10) /\ w.x = p.x
               /\ last.key = "ArrowUp" =>
                     w.y = Max(0, p.y - 10) /\ w.x = p.x

\* C10 witness: ArrowDown was pressed off the borders and the write moved
\* the record on the y axis alone.
C10_Witness ==
    /\ last.kind = "keydown"
    /\ last.key = "ArrowDown"
    /\ last.writes # <<>>
    /\ last.writes[1].val.y = LastPlayer.y + 10
    /\ last.writes[1].val.x = LastPlayer.x

====
